---------------------------- MODULE Spec2Model ----------------------------
(***************************************************************************)
(* A model of the Gym scheduling and registration engine of src/gym.py:    *)
(* the registries of instructors, workout classes and rooms, the schedule  *)
(* of offerings, and the operations add_instructor, add_workout_class,     *)
(* add_room, Instructor.add_certificate, schedule_workout_class and        *)
(* register.                                                               *)
(*                                                                         *)
(* Python dictionaries that the code iterates over (_instructors,          *)
(* _schedule and its nested room dictionaries) are modelled with their     *)
(* insertion order, as sequences of [key, val] records; dictionaries that  *)
(* are only indexed (_workouts, _room_capacities) are functions.           *)
(***************************************************************************)
EXTENDS Integers, Sequences, FiniteSets, TLC

(***************************************************************************)
(* Bounds of the model.                                                    *)
(***************************************************************************)
\* time points are 1..MaxTime, ordered as datetimes are
MaxTime == 2
\* room names are 1..MaxRoom, ordered as the room-name strings are
MaxRoom == 2
\* the capacity of the largest room
MaxCap == 2
\* client identifiers are 1..MaxClient
MaxClient == 2
\* at most MaxOfferings offerings are scheduled
MaxOfferings == 2

Times == 1..MaxTime
Rooms == 1..MaxRoom
\* the (name, capacity) pairs passed to add_room: room 1 is the large room,
\* every other room holds one client
RoomInputs == { <<r, IF r = 1 THEN MaxCap ELSE 1>> : r \in Rooms }
\* the (name, capacity) pairs passed to add_room when a name is offered with
\* several capacities
RoomVariants == Rooms \X (1..MaxCap)
Clients == 1..MaxClient

\* the certificate names in use
Certs == {"Cardio 1"}

(***************************************************************************)
(* The Instructor objects that exist.  An object is identified by its      *)
(* position in these sequences (Python object identity: Instructor defines *)
(* no __eq__); _id and name are set by __init__ and never change.          *)
(***************************************************************************)
InstrIds == <<1, 2, 2, 3, 4>>
InstrNames == <<"Diane", "Diane", "David", "David", "David">>
\* every Instructor object; the third one carries the id of another object
AllInstrObjs == 1..Len(InstrIds)
\* the Instructor objects of the main specification: the two named Diane
InstrObjs == { o \in AllInstrObjs : InstrNames[o] = "Diane" }
\* the Instructor objects with pairwise different ids, the first of each id:
\* two named Diane and two named David
NamedInstrObjs ==
    { o \in AllInstrObjs : \A p \in AllInstrObjs : p < o => InstrIds[p] # InstrIds[o] }
InstrIdSet == { InstrIds[o] : o \in InstrObjs }
\* the Instructor objects that add_certificate is called on: one instructor
\* acquires certificates, the other never holds any
CertHolders == {1}

\* Instructor.get_id
get_id(o) == InstrIds[o]

(***************************************************************************)
(* The WorkoutClass objects that exist: a name and the list of required    *)
(* certificates, both immutable.  WorkoutClass.__eq__ compares exactly     *)
(* these two fields, so a WorkoutClass is modelled by the record itself.   *)
(***************************************************************************)
WorkoutObjs ==
    { [name |-> "Boot Camp", required_certificates |-> <<"Cardio 1">>],
      [name |-> "Intro Tap", required_certificates |-> <<>>] }
WorkoutNames == { w.name : w \in WorkoutObjs }
\* the WorkoutClass objects passed to add_workout_class when a name is
\* offered twice: a second "Boot Camp" that requires no certificate
WorkoutVariants ==
    WorkoutObjs \cup { [name |-> "Boot Camp", required_certificates |-> <<>>] }

\* WorkoutClass.get_required_certificates
get_required_certificates(w) == w.required_certificates

\* Python set(lst)
ToSet(s) == { s[i] : i \in 1..Len(s) }

(***************************************************************************)
(* Insertion-ordered dictionaries.                                         *)
(***************************************************************************)
\* k in d
Has(d, k) == \E i \in 1..Len(d) : d[i].key = k
\* d[k], for a key that is present
Get(d, k) == d[CHOOSE i \in 1..Len(d) : d[i].key = k].val
\* d[k] = v: a new key goes to the end, an existing key keeps its position
Put(d, k, v) ==
    IF Has(d, k)
    THEN [i \in 1..Len(d) |-> IF d[i].key = k THEN [key |-> k, val |-> v] ELSE d[i]]
    ELSE Append(d, [key |-> k, val |-> v])
\* the keys of d, in iteration order
Keys(d) == [i \in 1..Len(d) |-> d[i].key]

VARIABLES
    certificates,     \* Instructor._certificates of every Instructor object
    instructors,      \* Gym._instructors: ordered dict id -> Instructor object
    workouts,         \* Gym._workouts: name -> WorkoutClass
    room_capacities,  \* Gym._room_capacities: room name -> capacity
    schedule,         \* Gym._schedule: ordered dict time -> ordered dict
                      \*   room -> <<instructor, workout, roster>>
    last,             \* the last call: its name, arguments and outcome
    in_flight,        \* the register calls of concurrent callers that have
                      \*   made their checks and not yet appended the client
    students          \* Course.students of the Course of src/course.py

gym == <<instructors, workouts, room_capacities, schedule>>
\* what the calls of the Gym leave alone
rest == <<in_flight, students>>
vars ==
    << certificates, instructors, workouts, room_capacities, schedule, last,
       in_flight, students >>

\* the outcomes of a call: Python's True and False, or the exception raised
PyTrue == "True"
PyFalse == "False"
KeyError == "KeyError"
ValueError == "ValueError"

Call(op, args, result) == [op |-> op, args |-> args, result |-> result]

\* Instructor.__init__ leaves _certificates empty; Gym.__init__ leaves the
\* four dictionaries empty
Init ==
    /\ certificates = [o \in AllInstrObjs |-> <<>>]
    /\ instructors = <<>>
    /\ workouts = <<>>
    /\ room_capacities = <<>>
    /\ schedule = <<>>
    /\ last = Call("init", <<>>, PyTrue)
    /\ in_flight = <<>>
    /\ students = <<>>

\* Instructor.get_certificates
get_certificates(o) == certificates[o]

(***************************************************************************)
(* Instructor.add_certificate                                              *)
(***************************************************************************)
\* add_certificate as it would be if a second call with a held certificate
\* removed the certificate instead of leaving the list alone
add_certificate_dropping_held(o, certificate) ==
    IF certificate \in ToSet(certificates[o])
    THEN /\ certificates' =
                [certificates EXCEPT
                    ![o] = SelectSeq(@, LAMBDA c : c # certificate)]
         /\ last' = Call("add_certificate", <<o, certificate>>, PyFalse)
         /\ UNCHANGED <<gym, rest>>
    ELSE /\ certificates' =
                [certificates EXCEPT ![o] = Append(@, certificate)]
         /\ last' = Call("add_certificate", <<o, certificate>>, PyTrue)
         /\ UNCHANGED <<gym, rest>>
add_certificate(o, certificate) ==
    IF certificate \in ToSet(certificates[o])
    THEN /\ last' = Call("add_certificate", <<o, certificate>>, PyFalse)
         /\ UNCHANGED <<certificates, gym, rest>>
    ELSE /\ certificates' =
                [certificates EXCEPT ![o] = Append(@, certificate)]
         /\ last' = Call("add_certificate", <<o, certificate>>, PyTrue)
         /\ UNCHANGED <<gym, rest>>

(***************************************************************************)
(* Gym.add_instructor, Gym.add_workout_class, Gym.add_room                 *)
(***************************************************************************)
add_instructor(o) ==
    IF Has(instructors, get_id(o))
    THEN /\ last' = Call("add_instructor", <<o>>, PyFalse)
         /\ UNCHANGED <<certificates, gym, rest>>
    ELSE /\ instructors' = Put(instructors, get_id(o), o)
         /\ last' = Call("add_instructor", <<o>>, PyTrue)
         /\ UNCHANGED <<certificates, workouts, room_capacities,
                        schedule, rest>>

add_workout_class(w) ==
    IF w.name \in DOMAIN workouts
    THEN /\ last' = Call("add_workout_class", <<w>>, PyFalse)
         /\ UNCHANGED <<certificates, gym, rest>>
    ELSE /\ workouts' = (w.name :> w) @@ workouts
         /\ last' = Call("add_workout_class", <<w>>, PyTrue)
         /\ UNCHANGED <<certificates, instructors, room_capacities,
                        schedule, rest>>

\* add_room as it would be if a second call with an existing name stored the
\* new capacity before returning False
add_room_overwriting(name, capacity) ==
    IF name \in DOMAIN room_capacities
    THEN /\ room_capacities' = [room_capacities EXCEPT ![name] = capacity]
         /\ last' = Call("add_room", <<name, capacity>>, PyFalse)
         /\ UNCHANGED <<certificates, instructors, workouts, schedule, rest>>
    ELSE /\ room_capacities' = (name :> capacity) @@ room_capacities
         /\ last' = Call("add_room", <<name, capacity>>, PyTrue)
         /\ UNCHANGED <<certificates, instructors, workouts, schedule, rest>>
add_room(name, capacity) ==
    IF name \in DOMAIN room_capacities
    THEN /\ last' = Call("add_room", <<name, capacity>>, PyFalse)
         /\ UNCHANGED <<certificates, gym, rest>>
    ELSE /\ room_capacities' = (name :> capacity) @@ room_capacities
         /\ last' = Call("add_room", <<name, capacity>>, PyTrue)
         /\ UNCHANGED <<certificates, instructors, workouts, schedule, rest>>

(***************************************************************************)
(* Gym.schedule_workout_class                                              *)
(***************************************************************************)
\* <instructor> in self._schedule[time_point][room]: tuple membership uses ==,
\* which for an Instructor is object identity; an Instructor equals neither
\* the WorkoutClass nor the roster of the tuple
InstructorInOffering(o, offering) == offering[1] = o

\* <workout> in self._schedule[time_point][room]: WorkoutClass.__eq__ holds
\* only for a WorkoutClass of the same name and required certificates
WorkoutInOffering(w, offering) == offering[2] = w

\* instr_busy as it would be if the tuple were searched for the instructor's
\* id instead of the Instructor object: never busy
instr_busy_id_in_tuple(time_point, o) == FALSE

\* lines 313-316: the instructor teaches in some room at time_point
instr_busy(time_point, o) ==
    /\ Has(schedule, time_point)
    /\ \E i \in 1..Len(Get(schedule, time_point)) :
          InstructorInOffering(o, Get(schedule, time_point)[i].val)

\* room_available as it would be if the room were not looked up in the slot:
\* a second call for the room replaces its offering
room_available_unchecked(time_point, room_name) == TRUE

\* lines 312-318
room_available(time_point, room_name) ==
    ~ (Has(schedule, time_point) /\ Has(Get(schedule, time_point), room_name))

\* instr_qualified as it would be with the subset test the wrong way round
instr_qualified_reversed(o, w) ==
    ToSet(get_certificates(o)) \subseteq ToSet(get_required_certificates(w))

\* lines 308-309, 319-320
instr_qualified(o, w) ==
    ToSet(get_required_certificates(w)) \subseteq ToSet(get_certificates(o))

\* InsertOffering as it would be if line 323 ran for every call: the slot
\* dictionary is created anew and holds the new offering only
InsertOffering_new_slot(time_point, room_name, o, w) ==
    Put(schedule, time_point, Put(<<>>, room_name, <<o, w, <<>>>>))

\* lines 322-334: the schedule after the offering is inserted
InsertOffering(time_point, room_name, o, w) ==
    LET slot == IF Has(schedule, time_point) THEN Get(schedule, time_point)
                ELSE <<>>
    IN  Put(schedule, time_point, Put(slot, room_name, <<o, w, <<>>>>))

\* schedule_outcome as it would be if the slot dictionary of line 323 were
\* created before the three conditions are tested: a rejected call on a new
\* time point leaves an empty slot behind
schedule_outcome_slot_first(time_point, room_name, workout_name, instr_id) ==
    IF ~ Has(instructors, instr_id) \/ workout_name \notin DOMAIN workouts
    THEN [result |-> KeyError, schedule |-> schedule]
    ELSE LET instructor == Get(instructors, instr_id)
             workout == workouts[workout_name]
         IN  IF /\ ~ instr_busy(time_point, instructor)
                /\ instr_qualified(instructor, workout)
                /\ room_available(time_point, room_name)
             THEN [result |-> PyTrue,
                   schedule |-> InsertOffering(time_point, room_name,
                                               instructor, workout)]
             ELSE [result |-> PyFalse,
                   schedule |-> IF Has(schedule, time_point) THEN schedule
                                ELSE Put(schedule, time_point, <<>>)]

\* lines 306-338: the outcome of the call and the schedule it leaves
schedule_outcome(time_point, room_name, workout_name, instr_id) ==
    IF ~ Has(instructors, instr_id) \/ workout_name \notin DOMAIN workouts
    THEN \* line 306 or 307 raises KeyError
         [result |-> KeyError, schedule |-> schedule]
    ELSE LET instructor == Get(instructors, instr_id)
             workout == workouts[workout_name]
         IN  IF /\ ~ instr_busy(time_point, instructor)
                /\ instr_qualified(instructor, workout)
                /\ room_available(time_point, room_name)
             THEN [result |-> PyTrue,
                   schedule |-> InsertOffering(time_point, room_name,
                                               instructor, workout)]
             ELSE [result |-> PyFalse, schedule |-> schedule]

schedule_workout_class(time_point, room_name, workout_name, instr_id) ==
    LET out == schedule_outcome(time_point, room_name, workout_name, instr_id)
    IN  /\ schedule' = out.schedule
        /\ last' = Call("schedule_workout_class",
                        <<time_point, room_name, workout_name, instr_id>>,
                        out.result)
        /\ UNCHANGED <<certificates, instructors, workouts,
                       room_capacities, rest>>

\* the documented preconditions of schedule_workout_class (lines 274-277)
schedule_precondition(room_name, workout_name, instr_id) ==
    /\ room_name \in DOMAIN room_capacities
    /\ Has(instructors, instr_id)
    /\ workout_name \in DOMAIN workouts

(***************************************************************************)
(* Gym.register and its helpers                                            *)
(***************************************************************************)
\* room_space as it would be if the roster were not subtracted
room_space_capacity_only(time, room_name) == room_capacities[room_name]

\* Gym.room_space; offering[-1] is the roster
room_space(time, room_name) ==
    LET num_registered == Len(Get(Get(schedule, time), room_name)[3])
    IN  room_capacities[room_name] - num_registered

\* client_free as it would be if only the first room of the slot were read
client_free_first_room(time, client) ==
    LET slot == Get(schedule, time)
    IN  Len(slot) = 0 \/ client \notin ToSet(slot[1].val[3])

\* Gym.client_free: the client is in no roster at <time>
client_free(time, client) ==
    LET slot == Get(schedule, time)
    IN  ~ \E i \in 1..Len(slot) : client \in ToSet(slot[i].val[3])

\* max(workout_rooms): the largest key of the dictionary
MaxKey(d) == CHOOSE k \in DOMAIN d : \A j \in DOMAIN d : j <= k

\* lines 403-409: the loop over the rooms of the slot from position i on.
\* workout_rooms maps a number of available spots to the room seen last with
\* that number.  The loop ends by falling through ("done"), by the return
\* False of line 409, or by the KeyError of room_space on a room that has
\* no capacity.
RECURSIVE register_loop(_, _, _, _, _)
register_loop(time_point, workout, free, i, workout_rooms) ==
    LET slot == Get(schedule, time_point) IN
    IF i > Len(slot)
    THEN [outcome |-> "done", workout_rooms |-> workout_rooms]
    ELSE LET room == slot[i].key IN
         IF ~ WorkoutInOffering(workout, slot[i].val)
         THEN [outcome |-> PyFalse, workout_rooms |-> workout_rooms]
         ELSE IF room \notin DOMAIN room_capacities
         THEN [outcome |-> KeyError, workout_rooms |-> workout_rooms]
         ELSE IF ~ (room_space(time_point, room) <= 0) /\ free
         THEN register_loop(time_point, workout, free, i + 1,
                  (room_space(time_point, room) :> room) @@ workout_rooms)
         ELSE [outcome |-> PyFalse, workout_rooms |-> workout_rooms]

\* AppendClient as it would be if the client were inserted at the front of
\* the roster
AppendClient_at_front(time_point, chosen_room, client) ==
    LET slot == Get(schedule, time_point)
        offering == Get(slot, chosen_room)
    IN  Put(schedule, time_point,
            Put(slot, chosen_room,
                <<offering[1], offering[2], <<client>> \o offering[3]>>))

\* AppendClient as it would be if the client were appended to the roster
\* of every room of the slot
AppendClient_every_room(time_point, chosen_room, client) ==
    LET slot == Get(schedule, time_point)
    IN  Put(schedule, time_point,
            [i \in 1..Len(slot) |->
                [key |-> slot[i].key,
                 val |-> <<slot[i].val[1], slot[i].val[2],
                           Append(slot[i].val[3], client)>>]])

\* line 411: the schedule after <client> is appended to the roster of
\* <chosen_room> at <time_point>
AppendClient(time_point, chosen_room, client) ==
    LET slot == Get(schedule, time_point)
        offering == Get(slot, chosen_room)
    IN  Put(schedule, time_point,
            Put(slot, chosen_room,
                <<offering[1], offering[2], Append(offering[3], client)>>))

\* register_outcome as it would be if the client were appended to the first
\* room of the slot before the loop decides: a refused call leaves the
\* client in a roster
register_outcome_append_first(time_point, client, workout_name) ==
    IF workout_name \notin DOMAIN workouts \/ ~ Has(schedule, time_point)
    THEN [result |-> KeyError, schedule |-> schedule]
    ELSE LET workout == workouts[workout_name]
             free == client_free(time_point, client)
             loop == register_loop(time_point, workout, free, 1, <<>>)
             first_room == Get(schedule, time_point)[1].key
         IN  IF loop.outcome # "done"
             THEN [result |-> loop.outcome,
                   schedule |-> AppendClient(time_point, first_room, client)]
             ELSE IF DOMAIN loop.workout_rooms = {}
             THEN [result |-> ValueError, schedule |-> schedule]
             ELSE [result |-> PyTrue,
                   schedule |-> AppendClient(time_point, first_room, client)]

\* lines 400-412: the outcome of the call and the schedule it leaves
register_outcome(time_point, client, workout_name) ==
    IF workout_name \notin DOMAIN workouts \/ ~ Has(schedule, time_point)
    THEN \* line 400 or line 354 raises KeyError
         [result |-> KeyError, schedule |-> schedule]
    ELSE LET workout == workouts[workout_name]
             free == client_free(time_point, client)
             loop == register_loop(time_point, workout, free, 1, <<>>)
         IN  IF loop.outcome # "done"
             THEN [result |-> loop.outcome, schedule |-> schedule]
             ELSE IF DOMAIN loop.workout_rooms = {}
             THEN \* max of an empty dictionary
                  [result |-> ValueError, schedule |-> schedule]
             ELSE LET chosen_room ==
                          loop.workout_rooms[MaxKey(loop.workout_rooms)]
                  IN  [result |-> PyTrue,
                       schedule |-> AppendClient(time_point, chosen_room,
                                                 client)]

register(time_point, client, workout_name) ==
    LET out == register_outcome(time_point, client, workout_name)
    IN  /\ schedule' = out.schedule
        /\ last' = Call("register", <<time_point, client, workout_name>>,
                        out.result)
        /\ UNCHANGED <<certificates, instructors, workouts,
                       room_capacities, rest>>

\* the number of offerings in the schedule
NumOfferings ==
    LET RECURSIVE Sum(_)
        Sum(i) == IF i = 0 THEN 0 ELSE Len(schedule[i].val) + Sum(i - 1)
    IN  Sum(Len(schedule))

(***************************************************************************)
(* The gym is driven by its callers, one call at a time.  Calls name       *)
(* rooms, instructors and workout classes that have been added (the        *)
(* documented preconditions on keys); a register call may name any time    *)
(* point.  schedule_workout_class is called while fewer than MaxOfferings  *)
(* offerings exist.                                                        *)
(***************************************************************************)
Next ==
    \/ \E o \in CertHolders, c \in Certs : add_certificate(o, c)
    \/ \E o \in InstrObjs : add_instructor(o)
    \/ \E w \in WorkoutObjs : add_workout_class(w)
    \/ \E in \in RoomInputs : add_room(in[1], in[2])
    \/ \E t \in Times, r \in Rooms, w \in WorkoutNames, i \in InstrIdSet :
          /\ schedule_precondition(r, w, i)
          /\ NumOfferings < MaxOfferings
          /\ schedule_workout_class(t, r, w, i)
    \/ \E t \in Times, c \in Clients, w \in WorkoutNames :
          /\ w \in DOMAIN workouts
          /\ register(t, c, w)

Spec == Init /\ [][Next]_vars

(***************************************************************************)
(* The schedule as the claims read it: the time points that are keys, the  *)
(* rooms that are keys at a time point, and the three fields of the        *)
(* offering stored for a (time, room).                                     *)
(***************************************************************************)
TimesOf(sched) == { sched[i].key : i \in 1..Len(sched) }
RoomsAt(sched, t) ==
    IF t \in TimesOf(sched)
    THEN { Get(sched, t)[i].key : i \in 1..Len(Get(sched, t)) }
    ELSE {}
OfferingAt(sched, t, r) == Get(Get(sched, t), r)
InstructorOf(offering) == offering[1]
WorkoutOf(offering) == offering[2]
RosterOf(offering) == offering[3]

\* instructor object o teaches an offering at t
TeachesAt(sched, o, t) ==
    \E r \in RoomsAt(sched, t) : InstructorOf(OfferingAt(sched, t, r)) = o
\* client c is in the roster of an offering at t
RegisteredAt(sched, c, t) ==
    \E r \in RoomsAt(sched, t) : c \in ToSet(RosterOf(OfferingAt(sched, t, r)))
\* the rooms whose offering at t is of the workout named wname
RoomsOffering(sched, t, wname) ==
    { r \in RoomsAt(sched, t) : WorkoutOf(OfferingAt(sched, t, r)).name = wname }
\* the offering at (t, r) has fewer clients than its room has places
HasSpace(sched, t, r) ==
    Len(RosterOf(OfferingAt(sched, t, r))) < room_capacities[r]

(***************************************************************************)
(* Invariants of the schedule                                              *)
(***************************************************************************)
\* C1: at every time point, the offerings of two different rooms have
\* different instructors (different objects with different ids).
C1_InstructorNotDoubleBooked ==
    \A t \in TimesOf(schedule) : \A r1, r2 \in RoomsAt(schedule, t) :
        r1 # r2 =>
            /\ InstructorOf(OfferingAt(schedule, t, r1))
                   # InstructorOf(OfferingAt(schedule, t, r2))
            /\ get_id(InstructorOf(OfferingAt(schedule, t, r1)))
                   # get_id(InstructorOf(OfferingAt(schedule, t, r2)))

\* a second offering has just been scheduled at a time point that already
\* had one
C1_Witness ==
    /\ last.op = "schedule_workout_class"
    /\ last.result = PyTrue
    /\ Cardinality(RoomsAt(schedule, last.args[1])) = 2

\* C2: at every time point, no client occurs at two positions of the
\* rosters, be it in two offerings or twice in one roster.
C2_ClientNotDoubleRegistered ==
    \A t \in TimesOf(schedule) : \A r1, r2 \in RoomsAt(schedule, t) :
        LET roster1 == RosterOf(OfferingAt(schedule, t, r1))
            roster2 == RosterOf(OfferingAt(schedule, t, r2))
        IN  \A p \in 1..Len(roster1), q \in 1..Len(roster2) :
                (r1 # r2 \/ p # q) => roster1[p] # roster2[q]

\* a client who is in a roster at t was refused a second registration at t,
\* although every room at t offers the workout and has space
C2_Witness ==
    /\ last.op = "register"
    /\ last.result = PyFalse
    /\ LET t == last.args[1]
           client == last.args[2]
           wname == last.args[3]
       IN  /\ RegisteredAt(schedule, client, t)
           /\ Cardinality(RoomsAt(schedule, t)) = 2
           /\ RoomsOffering(schedule, t, wname) = RoomsAt(schedule, t)
           /\ \A r \in RoomsAt(schedule, t) : HasSpace(schedule, t, r)

\* C3: the roster of every offering is at most as long as the capacity of
\* the offering's room.
C3_CapacityBound ==
    \A t \in TimesOf(schedule) : \A r \in RoomsAt(schedule, t) :
        /\ r \in DOMAIN room_capacities
        /\ Len(RosterOf(OfferingAt(schedule, t, r))) <= room_capacities[r]

\* a registration has just filled the large room
C3_Witness ==
    /\ last.op = "register"
    /\ last.result = PyTrue
    /\ \E r \in RoomsAt(schedule, last.args[1]) :
          LET roster == RosterOf(OfferingAt(schedule, last.args[1], r))
          IN  /\ Len(roster) = room_capacities[r]
              /\ Len(roster) = MaxCap
              /\ roster[Len(roster)] = last.args[2]

(***************************************************************************)
(* register: which room receives the client                                *)
(***************************************************************************)
\* the step is a call of register(t, client, wname), with any outcome
IsRegister(t, client, wname) ==
    /\ last'.op = "register"
    /\ last'.args = <<t, client, wname>>

\* the rooms offering wname at t that have remaining capacity before the call
Candidates(t, wname) ==
    { r \in RoomsOffering(schedule, t, wname) : HasSpace(schedule, t, r) }

\* the call appends the client to the roster of room r at t
AppendsTo(t, r, client) ==
    /\ r \in RoomsAt(schedule, t)
    /\ r \in RoomsAt(schedule', t)
    /\ RosterOf(OfferingAt(schedule', t, r))
           = Append(RosterOf(OfferingAt(schedule, t, r)), client)

\* C4: when register succeeds and two or more offerings of the workout at
\* that time have remaining capacity, the client is appended to one with the
\* largest roster among them (most full but not full).
C4_MostFullRoomChosen ==
    [][ \A t \in Times, client \in Clients, wname \in WorkoutNames :
          ( /\ IsRegister(t, client, wname)
            /\ last'.result = PyTrue
            /\ Cardinality(Candidates(t, wname)) >= 2 )
          => \E r \in Candidates(t, wname) :
                /\ AppendsTo(t, r, client)
                /\ \A r2 \in Candidates(t, wname) :
                      Len(RosterOf(OfferingAt(schedule, t, r2)))
                          <= Len(RosterOf(OfferingAt(schedule, t, r))) ]_vars

\* C5: if the client is in no roster at t and some offering of the workout
\* at t has remaining capacity, register returns True and the client is
\* appended to the roster of an offering of that workout at t, whatever the
\* other rooms at t offer.  Stated for the slots where no offering of the
\* workout is full (C6 is about the slots where one is).
C5_RegistersWhenSpace ==
    [][ \A t \in Times, client \in Clients, wname \in WorkoutNames :
          ( /\ IsRegister(t, client, wname)
            /\ ~ RegisteredAt(schedule, client, t)
            /\ Candidates(t, wname) # {}
            /\ Candidates(t, wname) = RoomsOffering(schedule, t, wname) )
          => /\ last'.result = PyTrue
             /\ \E r \in Candidates(t, wname) : AppendsTo(t, r, client) ]_vars

\* C6: if every offering at t is of the workout, the client is in no roster
\* at t, one offering is full and another has remaining capacity, register
\* returns True and appends the client to an offering that is not full; and
\* a free client is refused only when no offering of the workout has space.
C6_FullRoomSkipped ==
    [][ \A t \in Times, client \in Clients, wname \in WorkoutNames :
          ( /\ IsRegister(t, client, wname)
            /\ ~ RegisteredAt(schedule, client, t)
            /\ RoomsAt(schedule, t) # {}
            /\ RoomsOffering(schedule, t, wname) = RoomsAt(schedule, t) )
          => /\ ( /\ Candidates(t, wname) # {}
                  /\ Candidates(t, wname) # RoomsAt(schedule, t) )
                => /\ last'.result = PyTrue
                   /\ \E r \in Candidates(t, wname) : AppendsTo(t, r, client)
             /\ last'.result = PyFalse => Candidates(t, wname) = {} ]_vars

(***************************************************************************)
(* schedule_workout_class: outcome and frame                               *)
(***************************************************************************)
\* the step is a call of schedule_workout_class(t, r, wname, id), with any
\* outcome
IsSchedule(t, r, wname, id) ==
    /\ last'.op = "schedule_workout_class"
    /\ last'.args = <<t, r, wname, id>>

\* the (time, room) pairs that hold an offering
Cells(sched) == { <<t, r>> \in Times \X Rooms : r \in RoomsAt(sched, t) }

\* C7: for a registered room, instructor and workout class, the call returns
\* True and creates an offering with an empty roster iff the instructor
\* teaches no offering at that time, the room has no offering at that time
\* and the instructor's certificates include the workout's required
\* certificates; otherwise it returns False and creates no offering.
C7_ScheduleIff ==
    [][ \A t \in Times, r \in Rooms, wname \in WorkoutNames, id \in InstrIdSet :
          ( /\ IsSchedule(t, r, wname, id)
            /\ r \in DOMAIN room_capacities
            /\ wname \in DOMAIN workouts
            /\ Has(instructors, id) )
          => LET o == Get(instructors, id)
                 w == workouts[wname]
                 ok == /\ ~ TeachesAt(schedule, o, t)
                       /\ r \notin RoomsAt(schedule, t)
                       /\ \A cert \in ToSet(w.required_certificates) :
                             cert \in ToSet(certificates[o])
             IN  /\ ok => /\ last'.result = PyTrue
                          /\ Cells(schedule') = Cells(schedule) \cup {<<t, r>>}
                          /\ OfferingAt(schedule', t, r) = <<o, w, <<>>>>
                 /\ ~ ok => /\ last'.result = PyFalse
                            /\ Cells(schedule') = Cells(schedule) ]_vars

\* an instructor who teaches at another time point has just been scheduled
\* for a workout that requires a certificate
C7_Witness ==
    /\ last.op = "schedule_workout_class"
    /\ last.result = PyTrue
    /\ LET t == last.args[1]
           r == last.args[2]
           o == Get(instructors, last.args[4])
       IN  /\ OfferingAt(schedule, t, r) = <<o, workouts[last.args[3]], <<>>>>
           /\ workouts[last.args[3]].required_certificates # <<>>
           /\ \E t2 \in Times \ {t} : TeachesAt(schedule, o, t2)

\* C8: a call that returns False leaves the certificates, the registries
\* and the schedule as they were; a call for an instructor who teaches in
\* another room at that time returns False and the requested room still
\* has no offering at that time.
C8_FailedScheduleChangesNothing ==
    [][ \A t \in Times, r \in Rooms, wname \in WorkoutNames, id \in InstrIdSet :
          IsSchedule(t, r, wname, id)
          => /\ last'.result = PyFalse
                => UNCHANGED <<certificates, instructors, workouts,
                               room_capacities, schedule>>
             /\ ( /\ Has(instructors, id)
                  /\ TeachesAt(schedule, Get(instructors, id), t)
                  /\ r \notin RoomsAt(schedule, t) )
                => /\ last'.result = PyFalse
                   /\ r \notin RoomsAt(schedule', t) ]_vars

\* an instructor who teaches in one room has just been refused a second
\* room at the same time, for a workout they are qualified for; the
\* second room has no offering at that time
C8_Witness ==
    /\ last.op = "schedule_workout_class"
    /\ last.result = PyFalse
    /\ LET t == last.args[1]
           r == last.args[2]
           o == Get(instructors, last.args[4])
       IN  /\ TeachesAt(schedule, o, t)
           /\ r \notin RoomsAt(schedule, t)
           /\ ToSet(workouts[last.args[3]].required_certificates)
                  \subseteq ToSet(certificates[o])

(***************************************************************************)
(* register: rejection and frame                                           *)
(***************************************************************************)
\* C9: a register call for a client who is already in a roster at that
\* time, or for a workout whose offerings at that time (at least one) are
\* all full, returns False (it raises nothing) and leaves the certificates,
\* the registries and the schedule as they were.
C9_RejectedRegisterChangesNothing ==
    [][ \A t \in Times, client \in Clients, wname \in WorkoutNames :
          ( /\ IsRegister(t, client, wname)
            /\ \/ RegisteredAt(schedule, client, t)
               \/ /\ RoomsOffering(schedule, t, wname) # {}
                  /\ Candidates(t, wname) = {} )
          => /\ last'.result = PyFalse
             /\ UNCHANGED <<certificates, instructors, workouts,
                            room_capacities, schedule>> ]_vars

\* a client who is in no roster at t has just been refused because every
\* offering of the workout at t is full
C9_Witness ==
    /\ last.op = "register"
    /\ last.result = PyFalse
    /\ LET t == last.args[1]
           client == last.args[2]
           wname == last.args[3]
       IN  /\ ~ RegisteredAt(schedule, client, t)
           /\ RoomsOffering(schedule, t, wname) # {}
           /\ \A r \in RoomsOffering(schedule, t, wname) :
                 ~ HasSpace(schedule, t, r)

\* C10: a successful register(t, client, wname) appends the client to the
\* roster of exactly one offering at t, an offering of the workout wname,
\* and changes nothing else: every other offering, the instructor and the
\* workout of that offering, the keys of the schedule and their order, the
\* registries and the certificates stay as they were.
C10_RegisterFrame ==
    [][ \A t \in Times, client \in Clients, wname \in WorkoutNames :
          ( IsRegister(t, client, wname) /\ last'.result = PyTrue )
          => /\ UNCHANGED <<certificates, instructors, workouts,
                            room_capacities>>
             /\ \E r \in RoomsOffering(schedule, t, wname) :
                   schedule' =
                     [i \in 1..Len(schedule) |->
                        IF schedule[i].key # t THEN schedule[i]
                        ELSE [key |-> t,
                              val |->
                                [j \in 1..Len(schedule[i].val) |->
                                   LET e == schedule[i].val[j] IN
                                   IF e.key # r THEN e
                                   ELSE [key |-> r,
                                         val |-> <<InstructorOf(e.val),
                                                   WorkoutOf(e.val),
                                                   Append(RosterOf(e.val),
                                                          client)>>]]]]
    ]_vars

\* a client has just been registered at a time point with two offerings of
\* the workout: one roster ends with the client, the other does not hold
\* the client
C10_Witness ==
    /\ last.op = "register"
    /\ last.result = PyTrue
    /\ LET t == last.args[1]
           client == last.args[2]
       IN  /\ Cardinality(RoomsOffering(schedule, t, last.args[3])) = 2
           /\ \E r1, r2 \in RoomsAt(schedule, t) :
                 /\ r1 # r2
                 /\ client \in ToSet(RosterOf(OfferingAt(schedule, t, r1)))
                 /\ client \notin ToSet(RosterOf(OfferingAt(schedule, t, r2)))

(***************************************************************************)
(* Qualification of the instructors of the offerings                       *)
(***************************************************************************)
\* C11: in every reachable state, add_certificate calls made after the
\* scheduling included, the instructor of every offering holds every
\* certificate that the offering's workout class requires.
C11_InstructorsStayQualified ==
    \A t \in TimesOf(schedule) : \A r \in RoomsAt(schedule, t) :
        LET offering == OfferingAt(schedule, t, r)
        IN  ToSet(get_required_certificates(WorkoutOf(offering)))
                \subseteq ToSet(get_certificates(InstructorOf(offering)))

\* add_certificate has just been called on an instructor who already teaches
\* an offering of a workout class that requires a certificate
C11_Witness ==
    /\ last.op = "add_certificate"
    /\ \E t \in TimesOf(schedule) : \E r \in RoomsAt(schedule, t) :
          LET offering == OfferingAt(schedule, t, r)
          IN  /\ InstructorOf(offering) = last.args[1]
              /\ get_required_certificates(WorkoutOf(offering)) # <<>>

(***************************************************************************)
(* The registries: adding a key a second time.  RegistryNext offers every  *)
(* key with more than one value: an Instructor object with the id of       *)
(* another, a WorkoutClass with the name of another, a room name with      *)
(* several capacities.                                                     *)
(***************************************************************************)
\* the Instructor objects offered to add_instructor: those of the main
\* specification and the one that carries the id of one of them
RegistryInstrObjs == { o \in AllInstrObjs : InstrIds[o] \in InstrIdSet }

RegistryNext ==
    \/ \E o \in CertHolders, c \in Certs : add_certificate(o, c)
    \/ \E o \in RegistryInstrObjs : add_instructor(o)
    \/ \E w \in WorkoutVariants : add_workout_class(w)
    \/ \E in \in RoomVariants : add_room(in[1], in[2])
    \/ \E t \in Times, r \in Rooms, w \in WorkoutNames, i \in InstrIdSet :
          /\ schedule_precondition(r, w, i)
          /\ NumOfferings < MaxOfferings
          /\ schedule_workout_class(t, r, w, i)

SpecRegistry == Init /\ [][RegistryNext]_vars

\* the step is a call of one of the four add operations with a key that the
\* registry (or the instructor's certificate list) already holds
AddsExistingKey ==
    \/ /\ last'.op = "add_instructor"
       /\ Has(instructors, get_id(last'.args[1]))
    \/ /\ last'.op = "add_workout_class"
       /\ last'.args[1].name \in DOMAIN workouts
    \/ /\ last'.op = "add_room"
       /\ last'.args[1] \in DOMAIN room_capacities
    \/ /\ last'.op = "add_certificate"
       /\ last'.args[2] \in ToSet(get_certificates(last'.args[1]))

\* C12: add_instructor, add_workout_class, add_room or add_certificate
\* called with a key that already exists returns False and changes nothing:
\* the stored entity is kept, whatever value the second call carries.
C12_AddExistingKeyChangesNothing ==
    [][ AddsExistingKey =>
          /\ last'.result = PyFalse
          /\ UNCHANGED <<certificates, instructors, workouts,
                         room_capacities, schedule>> ]_vars

\* add_room has just been refused for a name that is stored with another
\* capacity than the one passed
C12_Witness ==
    /\ last.op = "add_room"
    /\ last.result = PyFalse
    /\ last.args[1] \in DOMAIN room_capacities
    /\ room_capacities[last.args[1]] # last.args[2]

(***************************************************************************)
(* Gym.instructor_hours                                                    *)
(***************************************************************************)
\* the range test as it would be with the upper end excluded
in_range_upper_excluded(time1, date, time2) == time1 <= date /\ date < time2

\* time1 <= date <= time2 (lines 458 and 517)
in_range(time1, date, time2) == time1 <= date /\ date <= time2

\* lines 454-456: the Instructor objects, in the order of self._instructors
instr_list == [i \in 1..Len(instructors) |-> instructors[i].val]

\* lines 460-462: for instr in instr_list, from position k on
RECURSIVE hours_of_offering(_, _, _)
hours_of_offering(hour_dict, offering, k) ==
    IF k > Len(instr_list)
    THEN hour_dict
    ELSE hours_of_offering(
             IF InstructorInOffering(instr_list[k], offering)
             THEN [hour_dict EXCEPT ![get_id(instr_list[k])] = @ + 1]
             ELSE hour_dict,
             offering, k + 1)

\* hours_of_slot as it would be if only the first room of the slot were
\* counted
hours_of_slot_first_room(hour_dict, slot, j) ==
    IF slot = <<>>
    THEN hour_dict
    ELSE hours_of_offering(hour_dict, slot[1].val, 1)

\* lines 459-462: for room in self._schedule[date], from position j on
RECURSIVE hours_of_slot(_, _, _)
hours_of_slot(hour_dict, slot, j) ==
    IF j > Len(slot)
    THEN hour_dict
    ELSE hours_of_slot(hours_of_offering(hour_dict, slot[j].val, 1), slot, j + 1)

\* lines 457-462: for date in self._schedule, from position d on
RECURSIVE hours_of_schedule(_, _, _, _)
hours_of_schedule(hour_dict, time1, time2, d) ==
    IF d > Len(schedule)
    THEN hour_dict
    ELSE hours_of_schedule(
             IF in_range(time1, schedule[d].key, time2)
             THEN hours_of_slot(hour_dict, schedule[d].val, 1)
             ELSE hour_dict,
             time1, time2, d + 1)

\* the dictionary returned: instructor id -> hours
instructor_hours(time1, time2) ==
    hours_of_schedule([id \in ToSet(Keys(instructors)) |-> 0], time1, time2, 1)

\* the time slots from time1 to time2, both included, at which the
\* Instructor object o teaches
SlotsTaught(o, time1, time2) ==
    { t \in TimesOf(schedule) :
        time1 <= t /\ t <= time2 /\ TeachesAt(schedule, o, t) }

\* C13: the keys of instructor_hours(time1, time2) are exactly the ids of the
\* registered instructors, and the value of each is the number of time slots
\* t with time1 <= t <= time2 at which the instructor teaches (0 if none).
C13_InstructorHours ==
    \A time1, time2 \in Times :
        time1 <= time2 =>
            LET hour_dict == instructor_hours(time1, time2)
            IN  /\ DOMAIN hour_dict = ToSet(Keys(instructors))
                /\ \A i \in 1..Len(instructors) :
                      hour_dict[instructors[i].key]
                          = Cardinality(SlotsTaught(instructors[i].val, time1, time2))

\* over the whole range one instructor has as many hours as there are time
\* points, one has none, and a range of one time point counts one hour
C13_Witness ==
    /\ MaxTime \in TimesOf(schedule)
    /\ \E id1, id2 \in ToSet(Keys(instructors)) :
          /\ instructor_hours(1, MaxTime)[id1] = MaxTime
          /\ instructor_hours(1, MaxTime)[id2] = 0
          /\ instructor_hours(MaxTime, MaxTime)[id1] = 1

(***************************************************************************)
(* Gym.payroll.  Money is counted in hundredths, so that the arithmetic is *)
(* exact: BONUS_RATE = 1.50 is 150, a base rate of 25.0 is 2500.           *)
(***************************************************************************)
BONUS_RATE == 150

\* the hourly base rates passed to payroll
BaseRates == {0, 2500}

\* lines 519-521: for instr in instr_dict, from position k on
RECURSIVE payroll_of_offering(_, _, _)
payroll_of_offering(instr_dict, offering, k) ==
    IF k > Len(instr_dict)
    THEN instr_dict
    ELSE payroll_of_offering(
             IF InstructorInOffering(instr_dict[k].key, offering)
             THEN Put(instr_dict, instr_dict[k].key, instr_dict[k].val + 1)
             ELSE instr_dict,
             offering, k + 1)

\* lines 518-521: for room in self._schedule[time], from position j on
RECURSIVE payroll_of_slot(_, _, _)
payroll_of_slot(instr_dict, slot, j) ==
    IF j > Len(slot)
    THEN instr_dict
    ELSE payroll_of_slot(payroll_of_offering(instr_dict, slot[j].val, 1),
                         slot, j + 1)

\* lines 516-521: for time in self._schedule, from position d on
RECURSIVE payroll_of_schedule(_, _, _, _)
payroll_of_schedule(instr_dict, time1, time2, d) ==
    IF d > Len(schedule)
    THEN instr_dict
    ELSE payroll_of_schedule(
             IF in_range(time1, schedule[d].key, time2)
             THEN payroll_of_slot(instr_dict, schedule[d].val, 1)
             ELSE instr_dict,
             time1, time2, d + 1)

\* payroll_instr_dict as it would be if the offerings of the whole schedule
\* were counted, whatever time1 and time2
payroll_instr_dict_whole_schedule(time1, time2) ==
    payroll_of_schedule(
        [i \in 1..Len(instructors) |-> [key |-> instructors[i].val, val |-> 0]],
        1, MaxTime, 1)

\* lines 510-521: the ordered dictionary Instructor object -> hours
payroll_instr_dict(time1, time2) ==
    payroll_of_schedule(
        [i \in 1..Len(instructors) |-> [key |-> instructors[i].val, val |-> 0]],
        time1, time2, 1)

\* the wages as they would be if the bonus did not grow with the number of
\* certificates
payroll_total_flat_bonus(hours, base_rate, counter) ==
    hours * (base_rate + BONUS_RATE)

\* lines 523-527: counter is the number of certificates held
payroll_total(hours, base_rate, counter) ==
    hours * (base_rate + BONUS_RATE * counter)

\* lines 522-528: one tuple (id, name, hours, wages) per Instructor object
payroll_lst1(time1, time2, base_rate) ==
    LET instr_dict == payroll_instr_dict(time1, time2)
    IN  [k \in 1..Len(instr_dict) |->
            LET instr == instr_dict[k].key
            IN  << get_id(instr), InstrNames[instr], instr_dict[k].val,
                   payroll_total(instr_dict[k].val, base_rate,
                                 Len(get_certificates(instr))) >>]

\* the list of ids as it would be without the call of sort
id_list_unsorted(id_list) == id_list

\* line 531: id_list.sort()
id_list_sort(id_list) == SortSeq(id_list, LAMBDA a, b : a < b)

\* lines 534-536: for item in lst1, from position k on; the entry of id_list
\* is an id until an item with that id replaces it, and a tuple equals no id
RECURSIVE payroll_entry(_, _, _)
payroll_entry(entry, lst1, k) ==
    IF k > Len(lst1)
    THEN entry
    ELSE payroll_entry(
             IF entry.is_id /\ entry.v = lst1[k][1]
             THEN [is_id |-> FALSE, v |-> lst1[k]]
             ELSE entry,
             lst1, k + 1)

\* the list returned
payroll(time1, time2, base_rate) ==
    LET lst1 == payroll_lst1(time1, time2, base_rate)
        id_list == id_list_sort([k \in 1..Len(lst1) |-> lst1[k][1]])
    IN  [i \in 1..Len(id_list) |->
            payroll_entry([is_id |-> TRUE, v |-> id_list[i]], lst1, 1).v]

\* C14: payroll returns exactly one tuple (id, name, hours, wages) per
\* registered instructor, those with no hours included, in strictly
\* ascending order of id, whatever the order of registration.
C14_PayrollOnePerInstructorAscending ==
    \A time1, time2 \in Times, base_rate \in BaseRates :
        time1 <= time2 =>
            LET result == payroll(time1, time2, base_rate)
            IN  /\ Len(result) = Len(instructors)
                /\ { result[i][1] : i \in 1..Len(result) }
                       = ToSet(Keys(instructors))
                /\ \A i \in 1..Len(result) :
                      /\ Len(result[i]) = 4
                      /\ result[i][2] = InstrNames[Get(instructors, result[i][1])]
                /\ \A i, j \in 1..Len(result) :
                      i < j => result[i][1] < result[j][1]

\* the instructor with the larger id was registered first, one of the two
\* teaches nothing, and the payroll lists the smaller id first
C14_Witness ==
    /\ Len(instructors) = 2
    /\ instructors[1].key > instructors[2].key
    /\ schedule # <<>>
    /\ LET result == payroll(1, MaxTime, 2500)
       IN  /\ result[1][1] < result[2][1]
           /\ \E i \in 1..2 : result[i][3] = 0
           /\ \E i \in 1..2 : result[i][3] > 0

\* C15: in every payroll tuple, wages = hours * (base_rate + BONUS_RATE *
\* the number of certificates the instructor holds), with BONUS_RATE = 1.50;
\* one certificate, one hour and a base rate of 25.0 give 26.5, and no hours
\* give 0.
C15_PayrollWages ==
    \A time1, time2 \in Times, base_rate \in BaseRates :
        time1 <= time2 =>
            LET result == payroll(time1, time2, base_rate)
            IN  \A i \in 1..Len(result) :
                    LET held == Len(get_certificates(Get(instructors, result[i][1])))
                        hours == result[i][3]
                        wages == result[i][4]
                    IN  /\ wages = hours * base_rate + hours * 150 * held
                        /\ (held = 1 /\ hours = 1 /\ base_rate = 2500)
                               => wages = 2650
                        /\ hours = 0 => wages = 0

\* a payroll at a base rate of 25.0 pays 26.5 to an instructor with one
\* certificate and one hour, 25.0 to one with no certificate and one hour
C15_Witness ==
    /\ Len(instructors) = 2
    /\ LET result == payroll(1, MaxTime, 2500)
       IN  /\ \E i \in 1..2 :
                 /\ Len(get_certificates(Get(instructors, result[i][1]))) = 1
                 /\ result[i][3] = 1
                 /\ result[i][4] = 2650
           /\ \E i \in 1..2 :
                 /\ Len(get_certificates(Get(instructors, result[i][1]))) = 0
                 /\ result[i][3] = 1
                 /\ result[i][4] = 2500

(***************************************************************************)
(* Dates.  Time point t is the datetime 2022-09-(10+t), (14-t):00: the     *)
(* time points are consecutive days from Sunday 2022-09-11 on, each at an  *)
(* earlier hour than the day before, so that neither the formatted date    *)
(* nor the formatted time is ordered as the datetimes are.                 *)
(***************************************************************************)
DayOf(t) == 10 + t
HourOf(t) == 14 - t

Weekdays ==
    << "Monday", "Tuesday", "Wednesday", "Thursday", "Friday", "Saturday",
       "Sunday" >>

\* strftime("%A, %Y-%m-%d"): the text is modelled by the sequence of its
\* fields; 2022-09-05 is a Monday
strftime_date(t) == << Weekdays[((DayOf(t) - 5) % 7) + 1], 2022, 9, DayOf(t) >>

\* strftime("%H:%M")
strftime_time(t) == << HourOf(t), 0 >>

\* gym_utilities.in_week: both datetimes lie in the same week, Monday 00:00
\* to Sunday 23:59
in_week(time, week) == (DayOf(time) - 5) \div 7 = (DayOf(week) - 5) \div 7

\* gym_utilities.create_offering_dict: the dictionary of one offering
create_offering_dict(date, time, class_, room, registered, available, name) ==
    [ Date |-> date, Time |-> time, Class |-> class_, Room |-> room,
      Registered |-> registered, Available |-> available,
      Instructor |-> name ]

\* the characters of the room name r, as code points: "R1", "R2", ...
RoomChars(r) == << 82, 48 + r >>

\* what a query gives back: the value returned, or the exception raised
Returned(v) == [raises |-> "none", value |-> v]
Raised(e) == [raises |-> e, value |-> <<>>]
TypeError == "TypeError"
IndexError == "IndexError"
AttributeError == "AttributeError"

(***************************************************************************)
(* Gym._is_instructor_name_unique                                          *)
(***************************************************************************)
\* _is_instructor_name_unique as it would be if only the instructors who
\* teach an offering were counted
_is_instructor_name_unique_among_teachers(instructor) ==
    Cardinality({ k \in 1..Len(instructors) :
                    /\ InstrNames[instructors[k].val] = InstrNames[instructor]
                    /\ \E t \in TimesOf(schedule) :
                          TeachesAt(schedule, instructors[k].val, t) }) <= 1

\* lines 561-569: the name is used by at most one registered instructor
_is_instructor_name_unique(instructor) ==
    Cardinality({ k \in 1..Len(instructors) :
                    InstrNames[instructors[k].val] = InstrNames[instructor] }) <= 1

(***************************************************************************)
(* Gym.offerings_at                                                        *)
(***************************************************************************)
\* the list of rooms as it would be without the call of sort
room_list_unsorted(room_list) == room_list

\* line 648: room_list.sort()
room_list_sort(room_list) == SortSeq(room_list, LAMBDA a, b : a < b)

\* the counter as it would be if it were advanced for every room
suffix_counter_every_room(i, unique) == i + 1

\* lines 657-658: i += 1 when the instructor's name is not unique
suffix_counter(i, unique) == IF unique THEN i ELSE i + 1

\* lines 649-662: for room in room_list, from position k on; i counts the
\* instructors met so far whose name is not unique, and is the suffix
RECURSIVE offerings_loop(_, _, _, _, _, _, _)
offerings_loop(info, date, time, room_list, k, i, lst1) ==
    IF k > Len(room_list)
    THEN lst1
    ELSE LET room == room_list[k]
             class_ == Get(info, room)[2].name
             instructor_ == Get(info, room)[1]
             registered == Len(Get(info, room)[3])
             space == room_capacities[room] - registered
             available == IF space < 0 THEN 0 ELSE space
             unique == _is_instructor_name_unique(instructor_)
             i2 == suffix_counter(i, unique)
             instructor_name ==
                 IF unique
                 THEN << InstrNames[instructor_] >>
                 ELSE << InstrNames[instructor_] >> \o << i2 >>
         IN  offerings_loop(info, date, time, room_list, k + 1, i2,
                 Append(lst1,
                        create_offering_dict(date, time, class_, room,
                                             registered, available,
                                             instructor_name)))

\* line 641 raises KeyError when time_point is no key of the schedule, line
\* 654 when a room of the slot is no key of the room capacities
offerings_at(time_point) ==
    IF ~ Has(schedule, time_point)
    THEN Raised(KeyError)
    ELSE LET info == Get(schedule, time_point)
         IN  IF \E k \in 1..Len(info) : info[k].key \notin DOMAIN room_capacities
             THEN Raised(KeyError)
             ELSE Returned(offerings_loop(info, strftime_date(time_point),
                                          strftime_time(time_point),
                                          room_list_sort(Keys(info)),
                                          1, 0, <<>>))

(***************************************************************************)
(* Gym.to_schedule_list                                                    *)
(***************************************************************************)
\* week is None
None == 0

\* swap, on positions counted from 1
swap(lst, ind1, ind2) ==
    [lst EXCEPT ![ind1] = lst[ind2], ![ind2] = lst[ind1]]

\* time_list1 as it would be if every time point were listed, a key of the
\* schedule or not
time_list1_every_time_point(week) ==
    SelectSeq([t \in 1..MaxTime |-> t],
              LAMBDA time : week = None \/ in_week(time, week))

\* time_list1 as it would be if the week were ignored
time_list1_every_week(week) == Keys(schedule)

\* lines 725-734: the time slots listed, in the order of self._schedule
time_list1(week) ==
    SelectSeq(Keys(schedule),
              LAMBDA time : week = None \/ in_week(time, week))

\* lines 727-728 and 733-734: the dictionaries of offerings_at(time) for the
\* times of the list, from position k on
RECURSIVE listing_lst1(_, _)
listing_lst1(times, k) ==
    IF k > Len(times)
    THEN <<>>
    ELSE offerings_at(times[k]).value \o listing_lst1(times, k + 1)

\* min(time_list1)
MinOf(times) ==
    times[CHOOSE p \in 1..Len(times) :
              \A q \in 1..Len(times) : times[p] <= times[q]]

\* time_list1.remove(x): without the first occurrence of x
RemoveFirst(times, x) ==
    LET p == CHOOSE p \in 1..Len(times) :
                 times[p] = x /\ \A q \in 1..(p - 1) : times[q] # x
    IN  SubSeq(times, 1, p - 1) \o SubSeq(times, p + 1, Len(times))

\* lines 735-737: the times in ascending order
RECURSIVE time_list2(_)
time_list2(times) ==
    IF times = <<>>
    THEN <<>>
    ELSE << MinOf(times) >> \o time_list2(RemoveFirst(times, MinOf(times)))

\* an element of the list that lines 739-752 rewrite: a datetime, or the
\* dictionary that has replaced it
TimeEntry(t) == [is_time |-> TRUE, v |-> t]
DictEntry(d) == [is_time |-> FALSE, v |-> d]

\* dict1 in time_list2: a dictionary equals no datetime
DictIn(dict1, lst) ==
    \E j \in 1..Len(lst) : ~ lst[j].is_time /\ lst[j].v = dict1

\* listing_fill_slot as it would be if the date and the time of dict1 were
\* not compared with those of the element: every dictionary of lst1 is
\* stored at every position
RECURSIVE listing_fill_slot_any_slot(_, _, _, _, _, _)
listing_fill_slot_any_slot(st, date, time, lst1, i, k) ==
    IF st.raises # "none" \/ k > Len(lst1)
    THEN st
    ELSE LET dict1 == lst1[k]
             same_slot == TRUE
             replaced == [st.value EXCEPT ![i] = DictEntry(dict1)]
             \* time_list2[i - 1]: position -1 is the last one
             prev == replaced[IF i = 1 THEN Len(replaced) ELSE i - 1]
         IN  IF same_slot /\ ~ DictIn(dict1, st.value)
             THEN listing_fill_slot_any_slot(Returned(replaced), date, time, lst1, i, k + 1)
             ELSE IF same_slot /\ DictIn(dict1, st.value)
             THEN IF prev.is_time
                  THEN Raised(TypeError)
                  ELSE IF i > Len(RoomChars(dict1.Room))
                  THEN Raised(IndexError)
                  ELSE IF RoomChars(prev.v.Room)[1] > RoomChars(dict1.Room)[i]
                  THEN listing_fill_slot_any_slot(
                           Returned(swap(replaced,
                                         IF i = 1 THEN Len(replaced) ELSE i - 1,
                                         i)),
                           date, time, lst1, i, k + 1)
                  ELSE listing_fill_slot_any_slot(Returned(replaced), date, time, lst1,
                                         i, k + 1)
             ELSE listing_fill_slot_any_slot(st, date, time, lst1, i, k + 1)

\* lines 742-751: for dict1 in lst1, from position k on, for the element at
\* position i (counted from 1; the code's i is i - 1); st.raises is "none"
\* until an exception ends the call
RECURSIVE listing_fill_slot(_, _, _, _, _, _)
listing_fill_slot(st, date, time, lst1, i, k) ==
    IF st.raises # "none" \/ k > Len(lst1)
    THEN st
    ELSE LET dict1 == lst1[k]
             same_slot == date = dict1.Date /\ time = dict1.Time
             replaced == [st.value EXCEPT ![i] = DictEntry(dict1)]
             \* time_list2[i - 1]: position -1 is the last one
             prev == replaced[IF i = 1 THEN Len(replaced) ELSE i - 1]
         IN  IF same_slot /\ ~ DictIn(dict1, st.value)
             THEN listing_fill_slot(Returned(replaced), date, time, lst1, i, k + 1)
             ELSE IF same_slot /\ DictIn(dict1, st.value)
             THEN IF prev.is_time
                  THEN Raised(TypeError)
                  ELSE IF i > Len(RoomChars(dict1.Room))
                  THEN Raised(IndexError)
                  ELSE IF RoomChars(prev.v.Room)[1] > RoomChars(dict1.Room)[i]
                  THEN listing_fill_slot(
                           Returned(swap(replaced,
                                         IF i = 1 THEN Len(replaced) ELSE i - 1,
                                         i)),
                           date, time, lst1, i, k + 1)
                  ELSE listing_fill_slot(Returned(replaced), date, time, lst1,
                                         i, k + 1)
             ELSE listing_fill_slot(st, date, time, lst1, i, k + 1)

\* lines 739-752: while i < len(time_list2), from position i on
RECURSIVE listing_fill(_, _, _)
listing_fill(st, lst1, i) ==
    IF st.raises # "none" \/ i > Len(st.value)
    THEN st
    ELSE IF ~ st.value[i].is_time
    THEN Raised(AttributeError)
    ELSE listing_fill(
             listing_fill_slot(st, strftime_date(st.value[i].v),
                               strftime_time(st.value[i].v), lst1, i, 1),
             lst1, i + 1)

\* the list returned, or the exception raised
to_schedule_list(week) ==
    LET times == time_list1(week)
        lst1 == listing_lst1(times, 1)
        sorted == time_list2(times)
        st == listing_fill(
                  Returned([p \in 1..Len(sorted) |-> TimeEntry(sorted[p])]),
                  lst1, 1)
    IN  IF \E k \in 1..Len(times) : offerings_at(times[k]).raises # "none"
        THEN \* the exception of offerings_at (lines 727, 733) ends the call
             Raised(KeyError)
        ELSE IF st.raises # "none"
        THEN st
        ELSE Returned([p \in 1..Len(st.value) |-> st.value[p].v])

(***************************************************************************)
(* The listings                                                            *)
(***************************************************************************)
\* the time point and the room that a dictionary of a listing stands for
CellOf(dict1) ==
    CHOOSE cell \in Times \X Rooms :
        /\ strftime_date(cell[1]) = dict1.Date
        /\ strftime_time(cell[1]) = dict1.Time
        /\ cell[2] = dict1.Room

\* C16: offerings_at(time_point) returns an empty list, and raises nothing,
\* when time_point is not a key of the schedule.
C16_NoOfferingsEmptyList ==
    \A time_point \in Times :
        ~ Has(schedule, time_point)
            => offerings_at(time_point) = Returned(<<>>)

\* C17: for a time of the schedule, offerings_at returns exactly one
\* dictionary per room with an offering at that time, in ascending order of
\* room name, with Class the workout's name, Registered the length of the
\* roster and Available max(capacity - length of the roster, 0).
C17_OfferingsAtRecords ==
    \A time_point \in TimesOf(schedule) :
        LET result == offerings_at(time_point)
            lst1 == result.value
        IN  /\ result.raises = "none"
            /\ { lst1[k].Room : k \in 1..Len(lst1) } = RoomsAt(schedule, time_point)
            /\ \A k, l \in 1..Len(lst1) : k < l => lst1[k].Room < lst1[l].Room
            /\ \A k \in 1..Len(lst1) :
                  LET offering == OfferingAt(schedule, time_point, lst1[k].Room)
                      registered == Len(RosterOf(offering))
                      capacity == room_capacities[lst1[k].Room]
                  IN  /\ lst1[k].Class = WorkoutOf(offering).name
                      /\ lst1[k].Registered = registered
                      /\ lst1[k].Available
                             = IF capacity - registered > 0
                               THEN capacity - registered ELSE 0

\* a slot whose second room was scheduled first, with a client in the first
\* room, is listed first room first with that client counted
C17_Witness ==
    \E d \in 1..Len(schedule) :
        LET info == schedule[d].val
            lst1 == offerings_at(schedule[d].key).value
        IN  /\ Len(info) = 2
            /\ info[1].key > info[2].key
            /\ Len(lst1) = 2
            /\ lst1[1].Room = info[2].key
            /\ lst1[1].Registered = 1
            /\ lst1[1].Available = room_capacities[lst1[1].Room] - 1
            /\ lst1[2].Registered = 0

\* the dictionaries of a listing that stand for time point t, in their order
RecordsOf(lst, t) ==
    SelectSeq(lst, LAMBDA dict1 :
                       /\ dict1.Date = strftime_date(t)
                       /\ dict1.Time = strftime_time(t))

\* C18: to_schedule_list() without a week returns the concatenation of
\* offerings_at(t) over the time slots of the schedule: one dictionary for
\* every offering, so that a slot with k offerings contributes k of them.
C18_ListingHasEveryOffering ==
    LET result == to_schedule_list(None)
    IN  /\ result.raises = "none"
        /\ Len(result.value) = NumOfferings
        /\ \A t \in TimesOf(schedule) :
              RecordsOf(result.value, t) = offerings_at(t).value

\* cell1 comes before cell2: at an earlier time point, or at the same time
\* point in a room of smaller name
ComesBefore(cell1, cell2) ==
    \/ cell1[1] < cell2[1]
    \/ cell1[1] = cell2[1] /\ cell1[2] < cell2[2]

\* C19: the dictionaries of to_schedule_list() follow the chronological
\* order of their time slots, whatever the order of scheduling, and those of
\* one time slot follow the ascending order of room names: of two offerings,
\* the one that comes first in this order is listed before the other.
C19_ListingOrder ==
    LET lst == to_schedule_list(None).value
    IN  \A cell1, cell2 \in Cells(schedule) :
            ComesBefore(cell1, cell2)
                => \E p, q \in 1..Len(lst) :
                      /\ p < q
                      /\ CellOf(lst[p]) = cell1
                      /\ CellOf(lst[q]) = cell2

\* the Instructor object of the offering that a dictionary stands for
InstructorOfRecord(dict1) ==
    InstructorOf(OfferingAt(schedule, CellOf(dict1)[1], CellOf(dict1)[2]))

\* in the listing, two different instructors of one name are never rendered
\* alike
DistinctSuffixes(lst) ==
    \A p, q \in 1..Len(lst) :
        ( /\ InstructorOfRecord(lst[p]) # InstructorOfRecord(lst[q])
          /\ InstrNames[InstructorOfRecord(lst[p])]
                 = InstrNames[InstructorOfRecord(lst[q])] )
        => lst[p].Instructor # lst[q].Instructor

\* C20: in any listing returned by offerings_at or to_schedule_list, two
\* different instructors who share a name and each teach an offering of the
\* listing carry different suffixes, also when their offerings are at
\* different time slots.
C20_SharedNamesDistinctSuffixes ==
    /\ \A t \in TimesOf(schedule) : DistinctSuffixes(offerings_at(t).value)
    /\ DistinctSuffixes(to_schedule_list(None).value)

(***************************************************************************)
(* Listings with several shared names.  NamesNext registers up to four     *)
(* instructors, two named Diane and two named David, and schedules them    *)
(* for the workout classes that require no certificate.                    *)
(***************************************************************************)
NamedInstrIdSet == { InstrIds[o] : o \in NamedInstrObjs }
OpenWorkoutObjs == { w \in WorkoutObjs : get_required_certificates(w) = <<>> }

NamesNext ==
    \/ \E o \in NamedInstrObjs : add_instructor(o)
    \/ \E w \in OpenWorkoutObjs : add_workout_class(w)
    \/ \E in \in RoomInputs : add_room(in[1], in[2])
    \/ \E t \in Times, r \in Rooms, w \in WorkoutNames, i \in NamedInstrIdSet :
          /\ schedule_precondition(r, w, i)
          /\ NumOfferings < MaxOfferings
          /\ schedule_workout_class(t, r, w, i)

SpecNames == Init /\ [][NamesNext]_vars

\* the positions up to k of a listing whose instructor satisfies Shared
SharedUpTo(lst, k, Shared(_)) ==
    { j \in 1..k : Shared(InstructorOfRecord(lst[j])) }

\* the instructor shares the name with another registered instructor
NameShared(o) == ~ _is_instructor_name_unique(o)

C22_SuffixIsInstructorId ==
    \A t \in TimesOf(schedule) :
        LET lst == offerings_at(t).value
        IN  \A k \in 1..Len(lst) :
                LET o == InstructorOfRecord(lst[k])
                IN  NameShared(o)
                        => lst[k].Instructor = << InstrNames[o], get_id(o) >>

(***************************************************************************)
(* Calls outside the documented preconditions.  UncheckedNext calls        *)
(* schedule_workout_class with any room name, workout name and instructor  *)
(* id, added or not.                                                       *)
(***************************************************************************)
UncheckedNext ==
    \/ \E o \in InstrObjs : add_instructor(o)
    \/ \E w \in OpenWorkoutObjs : add_workout_class(w)
    \/ \E in \in RoomInputs : add_room(in[1], in[2])
    \/ \E t \in Times, r \in Rooms, w \in WorkoutNames, i \in InstrIdSet :
          /\ NumOfferings < MaxOfferings
          /\ schedule_workout_class(t, r, w, i)

SpecUnchecked == Init /\ [][UncheckedNext]_vars

\* every room, instructor and workout class of the schedule is in its
\* registry
ReferencesExist(sched) ==
    \A cell \in Cells(sched) :
        LET offering == OfferingAt(sched, cell[1], cell[2])
        IN  /\ cell[2] \in DOMAIN room_capacities
            /\ Has(instructors, get_id(InstructorOf(offering)))
            /\ Get(instructors, get_id(InstructorOf(offering)))
                   = InstructorOf(offering)
            /\ WorkoutOf(offering).name \in DOMAIN workouts
            /\ workouts[WorkoutOf(offering).name] = WorkoutOf(offering)

\* C24: schedule_workout_class naming a room, an instructor id or a workout
\* name that was never added creates no offering and ends with an error
\* that is neither True nor the False of a booking conflict; hence every
\* room, instructor and workout class of the schedule is in its registry.
C24_UnknownKeysRejected ==
    [][ /\ \A t \in Times, r \in Rooms, w \in WorkoutNames, i \in InstrIdSet :
             ( /\ IsSchedule(t, r, w, i)
               /\ ~ schedule_precondition(r, w, i) )
             => /\ last'.result \notin {PyTrue, PyFalse}
                /\ schedule' = schedule
        /\ ReferencesExist(schedule') ]_vars

\* C25: register for a registered workout class that has no offering at the
\* time point, be it that the time point has no offering at all or only
\* offerings of other workout classes, ends with an error that is neither
\* True nor the False of a booking conflict, and changes nothing.
C25_NoOfferingIsAnError ==
    [][ \A t \in Times, client \in Clients, wname \in WorkoutNames :
          ( /\ IsRegister(t, client, wname)
            /\ wname \in DOMAIN workouts
            /\ RoomsOffering(schedule, t, wname) = {} )
          => /\ last'.result \notin {PyTrue, PyFalse}
             /\ UNCHANGED <<certificates, gym>> ]_vars

(***************************************************************************)
(* The shape of the schedule                                               *)
(***************************************************************************)
\* C27: in every state between operations every time-slot key of the
\* schedule maps to a non-empty room map whose keys each hold an offering
\* (an instructor, a workout class and a roster); a failed schedule call on
\* a new time point leaves no empty slot behind.
C27_NoEmptySlot ==
    \A d \in 1..Len(schedule) :
        /\ Len(schedule[d].val) >= 1
        /\ \A d2 \in 1..Len(schedule) : d2 # d => schedule[d2].key # schedule[d].key
        /\ \A k \in 1..Len(schedule[d].val) :
              /\ Len(schedule[d].val[k].val) = 3
              /\ InstructorOf(schedule[d].val[k].val) \in AllInstrObjs
              /\ \A k2 \in 1..Len(schedule[d].val) :
                    k2 # k => schedule[d].val[k2].key # schedule[d].val[k].key

\* a schedule call has just been refused for a time point that has no
\* offering, and the time point is still no key of the schedule
C27_Witness ==
    /\ last.op = "schedule_workout_class"
    /\ last.result = PyFalse
    /\ ~ Has(schedule, last.args[1])
    /\ schedule # <<>>

\* roster1 is a prefix of roster2
IsPrefix(roster1, roster2) ==
    /\ Len(roster1) <= Len(roster2)
    /\ SubSeq(roster2, 1, Len(roster1)) = roster1

\* C28: rosters are append-only and insertion-ordered: a successful register
\* leaves the roster of one offering equal to its previous roster followed
\* by the new client, and no step removes an offering or changes a roster
\* otherwise than by extending it, so that every earlier roster of an
\* offering is a prefix of every later one.
C28_RostersAppendOnly ==
    [][ /\ \A cell \in Cells(schedule) :
             /\ cell \in Cells(schedule')
             /\ IsPrefix(RosterOf(OfferingAt(schedule, cell[1], cell[2])),
                         RosterOf(OfferingAt(schedule', cell[1], cell[2])))
        /\ (last'.op = "register" /\ last'.result = PyTrue)
               => \E r \in RoomsAt(schedule, last'.args[1]) :
                     AppendsTo(last'.args[1], r, last'.args[2]) ]_vars

\* a register has just put a second client behind the first one of a roster
C28_Witness ==
    /\ last.op = "register"
    /\ last.result = PyTrue
    /\ \E r \in RoomsAt(schedule, last.args[1]) :
          LET roster == RosterOf(OfferingAt(schedule, last.args[1], r))
          IN  /\ Len(roster) = 2
              /\ roster[2] = last.args[2]
              /\ roster[1] # last.args[2]


(***************************************************************************)
(* Concurrent callers.  Gym has no lock: a register call issued by one     *)
(* caller runs the reads of lines 400-410 (the workout lookup, client_free *)
(* and the loop over the rooms with room_space) and then the append of     *)
(* line 411, and the interpreter may switch to another caller between the  *)
(* two.  in_flight holds the calls that have chosen their room and have    *)
(* not appended yet.  The steps of the model are a subset of the           *)
(* interleavings of the code, which may also switch inside lines 400-410.  *)
(***************************************************************************)
\* the number of concurrent callers
MaxCallers == 2

\* lines 400-410: the outcome of the checks and the room chosen by line 410
register_chosen_room(time_point, client, workout_name) ==
    IF workout_name \notin DOMAIN workouts \/ ~ Has(schedule, time_point)
    THEN [result |-> KeyError, chosen_room |-> None]
    ELSE LET workout == workouts[workout_name]
             free == client_free(time_point, client)
             loop == register_loop(time_point, workout, free, 1, <<>>)
         IN  IF loop.outcome # "done"
             THEN [result |-> loop.outcome, chosen_room |-> None]
             ELSE IF DOMAIN loop.workout_rooms = {}
             THEN [result |-> ValueError, chosen_room |-> None]
             ELSE [result |-> PyTrue,
                   chosen_room |-> loop.workout_rooms[MaxKey(loop.workout_rooms)]]

\* lines 400-410 run by one caller: a call that returns False or raises is
\* over, a call that has chosen a room is in flight
register_checks(time_point, client, workout_name) ==
    LET out == register_chosen_room(time_point, client, workout_name)
    IN  /\ Len(in_flight) < MaxCallers
        /\ IF out.result = PyTrue
           THEN /\ in_flight' = Append(in_flight,
                        [time_point |-> time_point, client |-> client,
                         workout_name |-> workout_name,
                         chosen_room |-> out.chosen_room])
                /\ UNCHANGED last
           ELSE /\ last' = Call("register",
                                <<time_point, client, workout_name>>,
                                out.result)
                /\ UNCHANGED in_flight
        /\ UNCHANGED <<certificates, gym, students>>

\* lines 411-412 run by the caller of the k-th call in flight
register_append(k) ==
    LET call == in_flight[k]
    IN  /\ schedule' = AppendClient(call.time_point, call.chosen_room,
                                    call.client)
        /\ in_flight' = SubSeq(in_flight, 1, k - 1)
                            \o SubSeq(in_flight, k + 1, Len(in_flight))
        /\ last' = Call("register",
                        <<call.time_point, call.client, call.workout_name>>,
                        PyTrue)
        /\ UNCHANGED <<certificates, instructors, workouts,
                       room_capacities, students>>

ConcurrentNext ==
    \/ \E o \in InstrObjs : add_instructor(o)
    \/ \E w \in OpenWorkoutObjs : add_workout_class(w)
    \/ \E in \in RoomInputs : add_room(in[1], in[2])
    \/ \E t \in Times, r \in Rooms, w \in WorkoutNames, i \in InstrIdSet :
          /\ schedule_precondition(r, w, i)
          /\ NumOfferings < MaxOfferings
          /\ schedule_workout_class(t, r, w, i)
    \/ \E t \in Times, c \in Clients, w \in WorkoutNames :
          /\ w \in DOMAIN workouts
          /\ register_checks(t, c, w)
    \/ \E k \in 1..Len(in_flight) : register_append(k)

SpecConcurrent == Init /\ [][ConcurrentNext]_vars

\* C26: with concurrent callers whose register and schedule calls
\* interleave between the checks and the roster append, every reachable
\* state keeps each roster within the capacity of its room and each client
\* in at most one roster position per time point.
C26_InterleavedCallsKeepInvariants ==
    \A t \in TimesOf(schedule) :
        /\ \A r \in RoomsAt(schedule, t) :
              Len(RosterOf(OfferingAt(schedule, t, r))) <= room_capacities[r]
        /\ \A c \in Clients :
              Cardinality({ <<r, p>> \in Rooms \X (1..MaxClient * MaxCallers) :
                               /\ r \in RoomsAt(schedule, t)
                               /\ p <= Len(RosterOf(OfferingAt(schedule, t, r)))
                               /\ RosterOf(OfferingAt(schedule, t, r))[p] = c }) <= 1


(***************************************************************************)
(* Course (src/course.py).  A Student is its id and its name, the two      *)
(* attributes enroll_students reads; Course.students is the list of the    *)
(* enrolled students in enrolment order.                                   *)
(***************************************************************************)
\* student ids are 1..MaxStudentId
MaxStudentId == 3
\* a batch holds at most MaxBatch students
MaxBatch == 2

StudentNames == {"", "Misha", "Diane"}
Students == [id : 1..MaxStudentId, name : StudentNames]
\* the lists passed to enroll_students
Batches == UNION { [1..n -> Students] : n \in 0..MaxBatch }

\* list.count
count(lst, x) == Cardinality({ k \in 1..Len(lst) : lst[k] = x })

\* lines 118-120: the ids of the enrolled students
enrolled_id_list == [k \in 1..Len(students) |-> students[k].id]

\* lines 121-125: some student of the batch has the empty name or the id of
\* an enrolled student
first_loop_returns(batch, id_list) ==
    \E k \in 1..Len(batch) :
        \/ batch[k].name = ""
        \/ count(id_list, batch[k].id) > 0

\* id_list2_returns as it would be if line 130 compared the count with 2
id_list2_returns_count_two(batch) ==
    \E k \in 1..Len(batch) :
        LET id_list2 == [j \in 1..k |-> batch[j].id]
        IN  \E j \in 1..k : count(id_list2, id_list2[j]) > 2

\* lines 126-131: after the id of the k-th student is appended to id_list2,
\* some id occurs more than once in id_list2
id_list2_returns(batch) ==
    \E k \in 1..Len(batch) :
        LET id_list2 == [j \in 1..k |-> batch[j].id]
        IN  \E j \in 1..k : count(id_list2, id_list2[j]) > 1

\* the value of a method that returns None
ReturnsNone == "None"

\* lines 118-134
enroll_students(batch) ==
    /\ students' =
           IF first_loop_returns(batch, enrolled_id_list)
           THEN students
           ELSE IF id_list2_returns(batch)
           THEN students
           ELSE students \o batch
    /\ last' = Call("enroll_students", <<batch>>, ReturnsNone)
    /\ UNCHANGED <<certificates, gym, in_flight>>

CourseNext == \E batch \in Batches : enroll_students(batch)

SpecCourse == Init /\ [][CourseNext]_vars

\* the batch cannot be enrolled as a whole: a student has the empty name,
\* the id of an enrolled student or the id of another student of the batch
BatchViolates(batch, enrolled) ==
    \E k \in 1..Len(batch) :
        \/ batch[k].name = ""
        \/ \E j \in 1..Len(enrolled) : enrolled[j].id = batch[k].id
        \/ \E j \in 1..Len(batch) : j # k /\ batch[j].id = batch[k].id

\* C29: enroll_students(batch) adds no student when some student of the
\* batch has the empty name, the id of an enrolled student or the id of
\* another student of the batch, and otherwise adds all of them in order;
\* after it no two enrolled students have the same id.
C29_EnrollAllOrNothing ==
    [][ last'.op = "enroll_students" =>
          LET batch == last'.args[1]
          IN  /\ IF BatchViolates(batch, students)
                 THEN students' = students
                 ELSE students' = students \o batch
              /\ \A j, k \in 1..Len(students') :
                    j # k => students'[j].id # students'[k].id ]_vars

\* the first student of the batch could have been enrolled alone, the second
\* has the id of an enrolled student, and the first has not been added
C29_Witness ==
    /\ last.op = "enroll_students"
    /\ students # <<>>
    /\ LET batch == last.args[1]
       IN  /\ Len(batch) = 2
           /\ batch[1].name # ""
           /\ batch[1].id # batch[2].id
           /\ \A k \in 1..Len(students) : students[k].id # batch[1].id
           /\ \E k \in 1..Len(students) : students[k].id = batch[2].id


(***************************************************************************)
(* LonelyMemberCriterion (src/criterion.py) on a MultipleChoiceQuestion    *)
(* (src/survey.py).  An Answer is its content; the answers of a list are   *)
(* distinct Answer objects (Answer defines no __eq__), so that             *)
(* answer_list.remove(curr) removes the position curr was read from.  The  *)
(* scores 0.0 and 1.0 are written 0 and 1.                                 *)
(***************************************************************************)
\* a list of answers holds at most MaxAnswers answers
MaxAnswers == 4

\* the options of the question, and the contents answers are made with:
\* the options and one string that is not an option
options == {"a", "b", "c"}
Contents == options \cup {"z"}
AnswerLists == UNION { [1..n -> Contents] : n \in 1..MaxAnswers }

InvalidAnswerError == "InvalidAnswerError"

\* MultipleChoiceQuestion.validate_answer
validate_answer(answer) == answer \in options

\* Question.get_similarity: 1.0 for identical contents, else 0.0
get_similarity(answer1, answer2) == IF answer1 = answer2 THEN 1 ELSE 0

\* lines 150-151: answer_list without the answer at the 0-based index i
remove_curr(answer_list, i) ==
    SubSeq(answer_list, 1, i) \o SubSeq(answer_list, i + 2, Len(answer_list))

\* lines 149-156: the while loop from the list answer_list and the index i
RECURSIVE lonely_loop(_, _)
lonely_loop(answer_list, i) ==
    IF Len(answer_list) = 1
    THEN Returned(1)
    ELSE IF i >= Len(answer_list)
    THEN \* answer_list[i] is out of range
         Raised(IndexError)
    ELSE LET curr == answer_list[i + 1]
             removed == remove_curr(answer_list, i)
         IN  IF \E k \in 1..Len(removed) : get_similarity(curr, removed[k]) # 1
             THEN Returned(0)
             ELSE lonely_loop(removed, i + 1)

\* lines 142-156: LonelyMemberCriterion.score_answers
score_answers(answers) ==
    IF \E k \in 1..Len(answers) : ~ validate_answer(answers[k])
    THEN Raised(InvalidAnswerError)
    ELSE IF Len(answers) = 1
    THEN Returned(0)
    ELSE lonely_loop(answers, 0)

\* a caller scores a list of answers
score(answers) ==
    /\ last' = Call("score_answers", <<answers>>, score_answers(answers))
    /\ UNCHANGED <<certificates, gym, rest>>

CriterionNext == \E answers \in AnswerLists : score(answers)

SpecCriterion == Init /\ [][CriterionNext]_vars

\* the content of the k-th answer is the content of no other answer
IsUnique(answers, k) ==
    \A j \in 1..Len(answers) : j # k => answers[j] # answers[k]

\* C30: for a list of two or more valid answers score_answers returns
\* without raising, 0.0 when some answer's content is shared by no other
\* answer of the list and 1.0 otherwise.
C30_LonelyScore ==
    last.op = "score_answers" =>
        LET answers == last.args[1]
        IN  (/\ Len(answers) >= 2
             /\ \A k \in 1..Len(answers) : validate_answer(answers[k]))
            => /\ last.result.raises = "none"
               /\ last.result.value =
                     IF \E k \in 1..Len(answers) : IsUnique(answers, k)
                     THEN 0 ELSE 1


(***************************************************************************)
(* The week of a listing                                                   *)
(***************************************************************************)
\* the day of September 2022 of the Monday that starts the week of <week>
MondayOf(week) == DayOf(week) - ((DayOf(week) - 5) % 7)

\* the time point t lies between the Monday 00:00 and the Sunday 23:59 of
\* the week that contains <week>
InWindow(t, week) ==
    /\ MondayOf(week) <= DayOf(t)
    /\ DayOf(t) <= MondayOf(week) + 6

\* C31: to_schedule_list(week) returns dictionaries only for time slots
\* between the Monday 00:00 and the Sunday 23:59 of the week that contains
\* <week>, and every time slot of the schedule in that week has a dictionary
\* in the result.
C31_WeekWindow ==
    \A week \in Times :
        LET result == to_schedule_list(week)
        IN  /\ result.raises = "none"
            /\ \A p \in 1..Len(result.value) :
                  \E t \in TimesOf(schedule) :
                      /\ InWindow(t, week)
                      /\ result.value[p].Date = strftime_date(t)
                      /\ result.value[p].Time = strftime_time(t)
            /\ \A t \in TimesOf(schedule) :
                  InWindow(t, week) => RecordsOf(result.value, t) # <<>>

\* both weeks have a time slot, and the listing of the first week has the
\* slot of that week only
C31_Witness ==
    /\ \E t1, t2 \in TimesOf(schedule) : ~ InWindow(t2, t1)
    /\ \E week \in Times :
          LET result == to_schedule_list(week)
          IN  /\ result.raises = "none"
              /\ Len(result.value) = 1
              /\ result.value[1].Date = strftime_date(week)


\* the registered Instructor objects that have the name of o
Namesakes(o) ==
    { o2 \in AllInstrObjs :
        /\ \E k \in 1..Len(instructors) : instructors[k].val = o2
        /\ InstrNames[o2] = InstrNames[o] }

\* C32: in offerings_at the instructor's name carries a suffix in
\* parentheses exactly when at least two registered instructors have that
\* name, whether or not the others teach an offering; a name that one
\* registered instructor has is rendered bare.
C32_SuffixIffNameShared ==
    \A t \in TimesOf(schedule) :
        LET lst == offerings_at(t).value
        IN  \A k \in 1..Len(lst) :
                LET o == InstructorOfRecord(lst[k])
                IN  /\ lst[k].Instructor[1] = InstrNames[o]
                    /\ IF Cardinality(Namesakes(o)) >= 2
                       THEN Len(lst[k].Instructor) = 2
                       ELSE lst[k].Instructor = << InstrNames[o] >>

\* a listing with a suffixed name and a bare name, where the suffixed
\* instructor's namesake is registered and teaches nothing
C32_Witness ==
    \E t \in TimesOf(schedule) :
        LET lst == offerings_at(t).value
        IN  /\ Len(lst) = 2
            /\ \E k, j \in 1..2 :
                  /\ Len(lst[k].Instructor) = 2
                  /\ Len(lst[j].Instructor) = 1
                  /\ \A o2 \in Namesakes(InstructorOfRecord(lst[k])) :
                        o2 # InstructorOfRecord(lst[k])
                            => \A t2 \in TimesOf(schedule) :
                                  ~ TeachesAt(schedule, o2, t2)


\* v is a list
IsList(v) == DOMAIN v = 1..Len(v)

\* C33: in every reachable state, the empty gym and the states where a time
\* slot holds several offerings included, to_schedule_list (with and
\* without a week) and payroll run to their end and return a list: no call
\* raises, to_schedule_list returns one element per listed time slot and
\* payroll one per instructor.
C33_ListingsReturnLists ==
    /\ \A week \in {None} \cup Times :
          LET result == to_schedule_list(week)
          IN  /\ result.raises = "none"
              /\ IsList(result.value)
              /\ Len(result.value) <= Len(schedule)
    /\ \A time1, time2 \in Times, base_rate \in BaseRates :
          LET result == payroll(time1, time2, base_rate)
          IN  /\ IsList(result)
              /\ Len(result) = Len(instructors)

\* a time slot holds two offerings, and both calls return a non-empty list
C33_Witness ==
    /\ \E t \in TimesOf(schedule) : Cardinality(RoomsAt(schedule, t)) = 2
    /\ to_schedule_list(None).raises = "none"
    /\ Len(to_schedule_list(None).value) = 1
    /\ Len(payroll(1, MaxTime, 0)) = 2


(***************************************************************************)
(* schedule_workout_class: permanence and frame                            *)
(***************************************************************************)
\* C34: offerings are permanent: the offering that a successful
\* schedule_workout_class creates at (time, room) has the instructor and
\* the workout class of the call, and every step leaves every offering at
\* its (time, room) with the same instructor and the same workout class, so
\* that no later state lacks it or holds another one in its place.
C34_OfferingsPermanent ==
    [][ /\ \A cell \in Cells(schedule) :
             /\ cell \in Cells(schedule')
             /\ InstructorOf(OfferingAt(schedule', cell[1], cell[2]))
                    = InstructorOf(OfferingAt(schedule, cell[1], cell[2]))
             /\ WorkoutOf(OfferingAt(schedule', cell[1], cell[2]))
                    = WorkoutOf(OfferingAt(schedule, cell[1], cell[2]))
        /\ (last'.op = "schedule_workout_class" /\ last'.result = PyTrue)
               => /\ <<last'.args[1], last'.args[2]>> \in Cells(schedule')
                  /\ InstructorOf(OfferingAt(schedule', last'.args[1], last'.args[2]))
                         = Get(instructors, last'.args[4])
                  /\ WorkoutOf(OfferingAt(schedule', last'.args[1], last'.args[2]))
                         = workouts[last'.args[3]] ]_vars

\* an offering with a client in its roster is still there after a second
\* offering has been scheduled at its time point, for the second instructor
C34_Witness ==
    /\ last.op = "schedule_workout_class"
    /\ last.result = PyTrue
    /\ \E r \in RoomsAt(schedule, last.args[1]) :
          /\ r # last.args[2]
          /\ RosterOf(OfferingAt(schedule, last.args[1], r)) # <<>>
          /\ InstructorOf(OfferingAt(schedule, last.args[1], r))
                 # Get(instructors, last.args[4])


\* C35: a successful schedule_workout_class(time, room, workout, instr) adds
\* the one entry (time, room), which was not there, to the schedule and
\* changes nothing else: every existing offering keeps its instructor,
\* workout class and roster, and the instructors, the workout classes, the
\* room capacities and the certificates are unchanged.
C35_ScheduleFrame ==
    [][ (last'.op = "schedule_workout_class" /\ last'.result = PyTrue)
          => LET t == last'.args[1]
                 r == last'.args[2]
             IN  /\ <<t, r>> \notin Cells(schedule)
                 /\ Cells(schedule') = Cells(schedule) \cup {<<t, r>>}
                 /\ NumOfferings' = NumOfferings + 1
                 /\ \A cell \in Cells(schedule) :
                       OfferingAt(schedule', cell[1], cell[2])
                           = OfferingAt(schedule, cell[1], cell[2])
                 /\ UNCHANGED <<certificates, instructors, workouts,
                                room_capacities>> ]_vars

\* an offering has just been scheduled in a room of a time point where
\* another room holds an offering with a client in its roster
C35_Witness ==
    /\ last.op = "schedule_workout_class"
    /\ last.result = PyTrue
    /\ NumOfferings = 2
    /\ \E r \in RoomsAt(schedule, last.args[1]) :
          /\ r # last.args[2]
          /\ Len(RosterOf(OfferingAt(schedule, last.args[1], r))) >= 1


(***************************************************************************)
(* Hours: payroll against instructor_hours, and against the offerings      *)
(***************************************************************************)
\* C36: in one state and for the same time1 and time2, the hours of every
\* payroll tuple are the value that instructor_hours(time1, time2) has for
\* the id of the tuple.
C36_PayrollHoursAreInstructorHours ==
    \A time1, time2 \in Times, base_rate \in BaseRates :
        LET result == payroll(time1, time2, base_rate)
            hour_dict == instructor_hours(time1, time2)
        IN  \A i \in 1..Len(result) :
                /\ result[i][1] \in DOMAIN hour_dict
                /\ result[i][3] = hour_dict[result[i][1]]

\* an instructor teaches at both time points: one hour in the payroll and
\* in instructor_hours over the first time point, two over both
C36_Witness ==
    \E i \in 1..Len(instructors) :
        LET id == instructors[i].key
        IN  /\ instructor_hours(1, 1)[id] = 1
            /\ instructor_hours(1, MaxTime)[id] = 2
            /\ \E k \in 1..Len(instructors) :
                  /\ payroll(1, 1, 2500)[k][1] = id
                  /\ payroll(1, 1, 2500)[k][3] = 1
                  /\ payroll(1, MaxTime, 2500)[k][3] = 2


\* the sum of the values of a dictionary id -> hours
RECURSIVE SumOfHours(_, _)
SumOfHours(hour_dict, ids) ==
    IF ids = {}
    THEN 0
    ELSE LET id == CHOOSE x \in ids : TRUE
         IN  hour_dict[id] + SumOfHours(hour_dict, ids \ {id})

\* C37: the values of instructor_hours(time1, time2) add up to the number
\* of offerings whose time slot lies in [time1, time2], and the instructor
\* of every offering is one registered instructor: each offering counts
\* once, for one instructor.
C37_HoursSumToOfferings ==
    /\ \A cell \in Cells(schedule) :
          Cardinality({ i \in 1..Len(instructors) :
                          instructors[i].val
                              = InstructorOf(OfferingAt(schedule, cell[1], cell[2])) })
              = 1
    /\ \A time1, time2 \in Times :
          LET hour_dict == instructor_hours(time1, time2)
          IN  SumOfHours(hour_dict, DOMAIN hour_dict)
                  = Cardinality({ cell \in Cells(schedule) :
                                    time1 <= cell[1] /\ cell[1] <= time2 })

\* two instructors teach in the two rooms of one time point: the hours over
\* that time point add up to 2
C37_Witness ==
    \E t \in TimesOf(schedule) :
        /\ Cardinality(RoomsAt(schedule, t)) = 2
        /\ SumOfHours(instructor_hours(t, t), DOMAIN instructor_hours(t, t)) = 2
        /\ \A id \in DOMAIN instructor_hours(t, t) : instructor_hours(t, t)[id] = 1


(***************************************************************************)
(* The listing against the schedule                                        *)
(***************************************************************************)
\* the dictionary stands for the offering at the time point and the room of
\* cell: it has its date, time, room and workout class
StandsFor(dict1, cell) ==
    /\ dict1.Date = strftime_date(cell[1])
    /\ dict1.Time = strftime_time(cell[1])
    /\ dict1.Room = cell[2]
    /\ dict1.Class = WorkoutOf(OfferingAt(schedule, cell[1], cell[2])).name

\* C38: every dictionary returned by to_schedule_list, with or without a
\* week, has the date, time, room and class of an offering of the schedule,
\* and no two dictionaries of one result have the same date, time and room.
C38_ListingRecordsAreOfferings ==
    \A week \in {None} \cup Times :
        LET result == to_schedule_list(week)
        IN  /\ result.raises = "none"
            /\ \A p \in 1..Len(result.value) :
                  \E cell \in Cells(schedule) : StandsFor(result.value[p], cell)
            /\ \A p, q \in 1..Len(result.value) :
                  p # q => ~ ( /\ result.value[p].Date = result.value[q].Date
                               /\ result.value[p].Time = result.value[q].Time
                               /\ result.value[p].Room = result.value[q].Room )

\* the listing of a schedule with an offering at each time point, in
\* different rooms and scheduled latest first, has a dictionary for each
C38_Witness ==
    /\ Len(schedule) = 2
    /\ schedule[1].key > schedule[2].key
    /\ LET lst == to_schedule_list(None).value
       IN  /\ Len(lst) = 2
           /\ lst[1].Room # lst[2].Room
           /\ \A p \in 1..2 : \E cell \in Cells(schedule) : StandsFor(lst[p], cell)

=============================================================================
